---- MODULE Spec2Model ----
(***************************************************************************)
(* The execute-code edge function (supabase/functions/ai-copilot/index.ts, *)
(* second serve block): language mapping, submit to the execution gateway, *)
(* the poll loop with its 10 second ceiling, verdict normalisation and the *)
(* catch at the boundary.  Several requests are served concurrently by the *)
(* same isolate; every await is a suspension point.                        *)
(*                                                                         *)
(* The Editor Shell (src/components/CodeEditor.tsx): the file collection,  *)
(* the open tabs and the active file, the handlers of the user's events    *)
(* and the continuations of their persistence and run calls, each with the *)
(* state its closure captured; and the File Tree View (FileExplorer,       *)
(* buildTree), rebuilt from the file collection on every render.           *)
(*                                                                         *)
(* The files edge function, which infers list, create, update or delete    *)
(* from the request, and the AICopilot component with the ai-copilot edge  *)
(* function (first serve block of index.ts) and its conflict check.        *)
(***************************************************************************)
EXTENDS Integers, Sequences, FiniteSets, TLC

VARIABLES
    rapidApiKey,  \* Deno.env.get('RAPIDAPI_KEY'), fixed for the deployment
    now,          \* Date.now(), in milliseconds
    nextToken,    \* execution gateway: number of the next submission token
    issued,       \* execution gateway: the token it returned to each request
    pc,           \* per request: the await the handler is suspended at
    language,     \* per request: `language` of the parsed body
    calls,        \* gateway calls (fetch) issued and not yet settled
    token,        \* per request: submissionData.token
    startTime,    \* per request: startTime of the poll loop
    sleepFrom,    \* per request: Date.now() when setTimeout was called
    result,       \* per request: the poll result a verdict was built from
    response,     \* per request: the Response the handler returned
    submits,      \* per request: submit calls issued so far
    polls,        \* per request: poll calls issued so far
    sleeps,       \* per request: sleeps started so far
    pending,      \* per request: poll answers received with status id < 3
    polledWith,   \* per request: the tokens its polls were issued with
    failedCall,   \* per request: the gateway call that was rejected or
                  \* answered outside 2xx, if any
    files,        \* CodeEditor: useState files
    activeFile,   \* CodeEditor: useState activeFile
    openTabs,     \* CodeEditor: useState openTabs
    output,       \* CodeEditor: useState output
    isRunning,    \* CodeEditor: useState isRunning
    runAction,    \* the activeFile in the closure of the editor's 'run-code'
                  \* action, Null while no editor is mounted
    tree,         \* FileExplorer: const tree = buildTree(files)
    invocations,  \* supabase.functions.invoke calls not yet settled, each
                  \* with the state its handler's closure captured
    invoked,      \* number of invoke calls made so far
    table,        \* the rows of the files table, in order of creation
    nextRowId,    \* number of the next row the table generates an id for
    events,       \* number of user events handled so far
    last,         \* the handler of the editor that ran last
    served,       \* files function: the request served last, the action
                  \* inferred for it and the status of its response
    copilot       \* AICopilot: its request, the structure returned, the
                  \* preview and what onFilesGenerated was called with

handlerVars ==
    <<rapidApiKey, now, nextToken, issued, pc, language, calls, token,
      startTime, sleepFrom, result, response, submits, polls, sleeps,
      pending, polledWith, failedCall>>

editorVars ==
    <<files, activeFile, openTabs, output, isRunning, runAction, tree,
      invocations, invoked, table, nextRowId, events, last>>

functionVars == <<served, copilot>>

vars == <<handlerVars, editorVars, functionVars>>

\* The requests served concurrently.
Reqs == {"r1", "r2"}

\* Requests arrive during the first MaxNow milliseconds.
MaxNow == 1000

\* A gateway call settles within MaxLatency milliseconds.
MaxLatency == 1000

-----------------------------------------------------------------------------
(* JavaScript values, as far as the handler distinguishes them.              *)

Undefined == [t |-> "undefined"]
Null == [t |-> "null"]
Fn == [t |-> "function"]
Obj == [t |-> "object"]
Num(n) == [t |-> "number", n |-> n]
Str(s) == [t |-> "string", s |-> s]

\* ToBoolean, as used by `!x` and `a || b`.
Truthy(v) ==
    CASE v.t = "undefined" -> FALSE
      [] v.t = "null" -> FALSE
      [] v.t = "number" -> v.n # 0
      [] v.t = "string" -> v.s # ""
      [] OTHER -> TRUE

\* a || b
Or(a, b) == IF Truthy(a) THEN a ELSE b

\* Number to decimal string, as a template literal converts it.
Digit(d) == SubSeq("0123456789", d + 1, d + 1)

RECURSIVE DecimalString(_)
DecimalString(n) ==
    IF n < 10 THEN Digit(n) ELSE DecimalString(n \div 10) \o Digit(n % 10)

\* JSON.stringify of an object: properties holding undefined or a function
\* are left out.
Stringify(obj) ==
    [k \in {p \in DOMAIN obj : obj[p].t \notin {"undefined", "function"}} |-> obj[k]]

-----------------------------------------------------------------------------
(* Language mapping.                                                         *)

LANGUAGE_MAP ==
    [python |-> 71, javascript |-> 63, typescript |-> 74, cpp |-> 54, c |-> 50,
     java |-> 62, csharp |-> 51, php |-> 68, ruby |-> 72, go |-> 60, rust |-> 73,
     plaintext |-> 63]

\* Properties every object literal inherits from Object.prototype.
ObjectPrototype ==
    [constructor |-> Fn, toString |-> Fn, valueOf |-> Fn, hasOwnProperty |-> Fn,
     __proto__ |-> Obj]

\* The property key a value used as an index is converted to.
PropertyKey(v) ==
    CASE v.t = "string" -> v.s
      [] v.t = "number" -> DecimalString(v.n)
      [] OTHER -> v.t

\* LANGUAGE_MAP[language]: own properties first, then the prototype chain.
Lookup(v) ==
    LET key == PropertyKey(v) IN
    IF key \in DOMAIN LANGUAGE_MAP THEN Num(LANGUAGE_MAP[key])
    ELSE IF key \in DOMAIN ObjectPrototype THEN ObjectPrototype[key]
    ELSE Undefined

\* const languageId = LANGUAGE_MAP[language] || LANGUAGE_MAP.javascript
languageId(v) == Or(Lookup(v), Num(LANGUAGE_MAP.javascript))

-----------------------------------------------------------------------------
(* Inputs: the request, the environment and the gateway's answers.           *)

\* An Error with the given message.
Err(m) == [message |-> Str(m)]

\* Values of `language` in the request body: the keys of the table, a missing
\* property, an unknown name, and two names every object inherits.
Languages ==
    {Str(k) : k \in DOMAIN LANGUAGE_MAP}
        \cup {Undefined, Str("brainfuck"), Str("constructor"), Str("__proto__")}

\* What `await req.json()` yields: a rejection, or the parsed object.
Bodies ==
    {[ok |-> FALSE, error |-> Err("Unexpected end of JSON input"),
      code |-> Undefined, language |-> Undefined]}
        \cup {[ok |-> TRUE, error |-> Err(""), code |-> Str("print(1)"),
               language |-> l] : l \in Languages}

\* Values of the RAPIDAPI_KEY environment variable.
Keys == {Undefined, Str(""), Str("key")}

\* How a fetch settles: it rejects (network error), or resolves with an HTTP
\* status.
Rejections == {Err("error sending request"), Err("")}
HttpStatuses == {200, 429, 503}

\* Poll results of a submission still queued (1) or running (2).
PendingResults ==
    {[status_id |-> Num(1), status_description |-> Str("In Queue"),
      stdout |-> Null, stderr |-> Null, compile_output |-> Null,
      time |-> Null, memory |-> Null],
     [status_id |-> Num(2), status_description |-> Str("Processing"),
      stdout |-> Undefined, stderr |-> Undefined, compile_output |-> Undefined,
      time |-> Undefined, memory |-> Undefined]}

\* Poll results of a finished submission: every optional field absent, null,
\* present and empty (or zero), present and non-empty, and mixtures.
FinishedResults ==
    {[status_id |-> Num(3), status_description |-> Str("Accepted"),
      stdout |-> Str("Hello, World!\n"), stderr |-> Null, compile_output |-> Null,
      time |-> Str("0.02"), memory |-> Num(3328)],
     [status_id |-> Num(3), status_description |-> Str("Accepted"),
      stdout |-> Str(""), stderr |-> Str(""), compile_output |-> Str(""),
      time |-> Str(""), memory |-> Num(0)],
     [status_id |-> Num(3), status_description |-> Str("Accepted"),
      stdout |-> Undefined, stderr |-> Undefined, compile_output |-> Undefined,
      time |-> Undefined, memory |-> Undefined],
     [status_id |-> Num(4), status_description |-> Str("Wrong Answer"),
      stdout |-> Str("42"), stderr |-> Str("warning"), compile_output |-> Str("note"),
      time |-> Str("0.5"), memory |-> Num(0)],
     [status_id |-> Num(6), status_description |-> Str("Compilation Error"),
      stdout |-> Null, stderr |-> Undefined, compile_output |-> Str("error: expected ';'"),
      time |-> Null, memory |-> Null],
     [status_id |-> Num(11), status_description |-> Str("Runtime Error (NZEC)"),
      stdout |-> Str(""), stderr |-> Str("Traceback"), compile_output |-> Undefined,
      time |-> Str("0.01"), memory |-> Undefined]}

Results == PendingResults \cup FinishedResults

-----------------------------------------------------------------------------
(* The handler, one action per stretch of code between two awaits.          *)

\* The ceiling a second higher.
timeoutOfEleven == 10000 + 1000

timeout == 10000

NoResponse == [status |-> 0, body |-> Undefined]

\* The catch block passing the message on as it is.
CatchBare(err) ==
    [status |-> 500,
     body |-> Stringify(
        [error |-> err.message, stderr |-> err.message,
         status_description |-> Str("Runtime Error")])]

\* The catch block: the 500 response built from the thrown error.
Catch(err) ==
    [status |-> 500,
     body |-> Stringify(
        [error |-> Or(err.message, Str("Execution failed")),
         stderr |-> Str("Execution failed: " \o Or(err.message, Str("Unknown error")).s),
         status_description |-> Str("Runtime Error")])]

\* The terminal branch without the defaults.
VerdictAsReceived(res) ==
    [status |-> 200,
     body |-> Stringify(
        [stdout |-> res.stdout, stderr |-> res.stderr,
         compile_output |-> res.compile_output, time |-> res.time,
         memory |-> res.memory, status_description |-> res.status_description])]

\* The response of the terminal branch: the verdict with its fields defaulted.
Verdict(res) ==
    [status |-> 200,
     body |-> Stringify(
        [stdout |-> Or(res.stdout, Str("")),
         stderr |-> Or(res.stderr, Str("")),
         compile_output |-> Or(res.compile_output, Str("")),
         time |-> Or(res.time, Str("0")),
         memory |-> Or(res.memory, Num(0)),
         status_description |-> res.status_description])]

\* The credential check left out.
KeyNotChecked == FALSE

\* if (!rapidApiKey)
MissingKey == ~Truthy(rapidApiKey)

\* The terminal test off by one, either way.
CompletedAbove3(res) == res.status_id.n > 3
CompletedFrom2(res) == res.status_id.n >= 2

\* if (result.status.id >= 3)
Completed(res) == res.status_id.n >= 3

\* The status of the response not looked at.
AlwaysOk(status) == TRUE

\* response.ok
IsOk(status) == status \in 200..299

\* The token kept in a variable of the module, shared by the requests: a
\* poll after a sleep uses the token assigned last.
SharedToken(r, tok) ==
    IF pc[r] = "submit" THEN tok ELSE Str("T" \o DecimalString(nextToken - 1))

\* The token the poll URL is built from: the local `token` of the request.
PollToken(r, tok) == tok

\* The sleep not awaited.
NotAwaited(r) == TRUE

\* The promise of setTimeout(resolve, 1000) has resolved.
TimerFired(r) == now - sleepFrom[r] >= 1000

\* The loop condition with <= for <.
InTimeInclusive(st) == now - st <= timeout

\* while (Date.now() - startTime < timeout)
InTime(st) == now - st < timeout

\* The locals of request r after a stretch of code; the other requests keep
\* theirs.
Frame(r, at, lang, tok, st, sf, res) ==
    /\ pc' = [pc EXCEPT ![r] = at]
    /\ language' = [language EXCEPT ![r] = lang]
    /\ token' = [token EXCEPT ![r] = tok]
    /\ startTime' = [startTime EXCEPT ![r] = st]
    /\ sleepFrom' = [sleepFrom EXCEPT ![r] = sf]
    /\ result' = [result EXCEPT ![r] = res]

\* The handler returns resp; the locals of its frame are gone.  The poll
\* result a verdict was built from stays on record.
Return(r, resp, res) ==
    /\ Frame(r, "done", Undefined, Undefined, 0, 0, res)
    /\ response' = [response EXCEPT ![r] = resp]

\* The body sent with the submit call.
Submission(code, lang) ==
    Stringify([source_code |-> code, language_id |-> languageId(lang),
               stdin |-> Str(""), expected_output |-> Str("")])

\* No handler of the editor has run.
NotCalled == [handler |-> "", fileId |-> "", ok |-> TRUE, active |-> ""]

\* No browser session: the state of the editor in the specifications of the
\* edge function alone.
Unmounted ==
    /\ last = NotCalled
    /\ activeFile = Null
    /\ openTabs = <<>>
    /\ output = Null
    /\ isRunning = FALSE
    /\ runAction = Null
    /\ invocations = {}
    /\ invoked = 0
    /\ table = <<>>
    /\ nextRowId = 1
    /\ events = 0

NoSession == files = <<>> /\ tree = Null /\ Unmounted

\* The edge function deployed with one of `keys` as its RAPIDAPI_KEY, before
\* the requests in `arriving` are served; no request ever arrives on the other
\* slots.
Deployed(keys, arriving) ==
    /\ rapidApiKey \in keys
    /\ now = 0
    /\ nextToken = 1
    /\ issued = [r \in Reqs |-> Undefined]
    /\ pc = [r \in Reqs |-> IF r \in arriving THEN "idle" ELSE "none"]
    /\ language = [r \in Reqs |-> Undefined]
    /\ calls = {}
    /\ token = [r \in Reqs |-> Undefined]
    /\ startTime = [r \in Reqs |-> 0]
    /\ sleepFrom = [r \in Reqs |-> 0]
    /\ result = [r \in Reqs |-> Undefined]
    /\ response = [r \in Reqs |-> NoResponse]
    /\ submits = [r \in Reqs |-> 0]
    /\ polls = [r \in Reqs |-> 0]
    /\ sleeps = [r \in Reqs |-> 0]
    /\ pending = [r \in Reqs |-> 0]
    /\ polledWith = [r \in Reqs |-> {}]
    /\ failedCall = [r \in Reqs |-> "none"]
    /\ served = Null
    /\ copilot = Null

\* The state before the requests in `arriving` are served.
InitWith(arriving) == Deployed(Keys, arriving) /\ NoSession

\* One run request.
Init == InitWith({"r1"})

\* Two run requests, handled concurrently.
InitConcurrent == InitWith(Reqs)

\* serve: from the call of the handler to the fetch of the submit.  code and
\* language are not read after that fetch; language is kept while it is
\* outstanding.
Serve(r) ==
    /\ pc[r] = "idle"
    /\ now < MaxNow
    /\ \/ \* if (req.method === 'OPTIONS')
          /\ Return(r, [status |-> 200, body |-> Null], Undefined)
          /\ UNCHANGED <<calls, submits>>
       \/ \E body \in Bodies :
            IF ~body.ok THEN
                /\ Return(r, Catch(body.error), Undefined)
                /\ UNCHANGED <<calls, submits>>
            ELSE IF MissingKey THEN
                /\ Return(r, Catch(Err("RAPIDAPI_KEY not configured")), Undefined)
                /\ UNCHANGED <<calls, submits>>
            ELSE
                /\ calls' = calls \cup
                      {[req |-> r, kind |-> "submit", n |-> submits[r] + 1,
                        at |-> now, token |-> Undefined,
                        body |-> Submission(body.code, body.language)]}
                /\ submits' = [submits EXCEPT ![r] = @ + 1]
                /\ Frame(r, "submit", body.language, Undefined, 0, 0, Undefined)
                /\ UNCHANGED response
    /\ UNCHANGED <<rapidApiKey, now, nextToken, issued, polls, sleeps,
                   pending, polledWith, failedCall>>
    /\ UNCHANGED <<editorVars, functionVars>>

\* The top of the while loop, entered with the calls cs outstanding: the next
\* poll is fetched with token tok, or the loop is left and the timeout thrown.
LoopTop(r, tok, st, cs) ==
    IF InTime(st) THEN
        /\ calls' = cs \cup
              {[req |-> r, kind |-> "poll", n |-> polls[r] + 1, at |-> now,
                token |-> PollToken(r, tok), body |-> <<>>]}
        /\ polls' = [polls EXCEPT ![r] = @ + 1]
        /\ polledWith' = [polledWith EXCEPT ![r] = @ \cup {PollToken(r, tok)}]
        /\ Frame(r, "poll", Undefined, tok, st, 0, Undefined)
        /\ UNCHANGED response
    ELSE
        /\ calls' = cs
        /\ Return(r, Catch(Err("Execution timeout")), Undefined)
        /\ UNCHANGED <<polls, polledWith>>

\* The submit fetch settles: up to the fetch of the first poll.
SubmitResponse(r) ==
    /\ pc[r] = "submit"
    /\ \E c \in calls :
        /\ c.req = r /\ c.kind = "submit"
        /\ \/ \E e \in Rejections :
                /\ calls' = calls \ {c}
                /\ Return(r, Catch(e), Undefined)
                /\ failedCall' = [failedCall EXCEPT ![r] = "submit"]
                /\ UNCHANGED <<nextToken, issued, polls, polledWith>>
           \/ \E status \in HttpStatuses :
                /\ failedCall' = [failedCall EXCEPT
                                    ![r] = IF status \in 200..299 THEN @ ELSE "submit"]
                /\ IF ~IsOk(status) THEN
                       /\ calls' = calls \ {c}
                       /\ Return(r, Catch(Err("Submission failed: "
                                                 \o DecimalString(status))), Undefined)
                       /\ UNCHANGED <<nextToken, issued, polls, polledWith>>
                   ELSE
                       LET tok == Str("T" \o DecimalString(nextToken)) IN
                       /\ nextToken' = nextToken + 1
                       /\ issued' = [issued EXCEPT ![r] = tok]
                       /\ LoopTop(r, tok, now, calls \ {c})
    /\ UNCHANGED <<rapidApiKey, now, submits, sleeps, pending>>
    /\ UNCHANGED <<editorVars, functionVars>>

\* A poll fetch settles: up to the return of the verdict or the setTimeout.
\* result is not read after the test of its status.
PollResponse(r) ==
    /\ pc[r] = "poll"
    /\ \E c \in calls :
        /\ c.req = r /\ c.kind = "poll"
        /\ calls' = calls \ {c}
        /\ \/ \E e \in Rejections :
                /\ Return(r, Catch(e), Undefined)
                /\ failedCall' = [failedCall EXCEPT ![r] = "poll"]
                /\ UNCHANGED <<sleeps, pending>>
           \/ \E status \in HttpStatuses :
                /\ failedCall' = [failedCall EXCEPT
                                    ![r] = IF status \in 200..299 THEN @ ELSE "poll"]
                /\ IF ~IsOk(status) THEN
                       /\ Return(r, Catch(Err("Result fetch failed: "
                                                 \o DecimalString(status))), Undefined)
                       /\ UNCHANGED <<sleeps, pending>>
                   ELSE
                       \E res \in Results :
                           /\ pending' = [pending EXCEPT
                                 ![r] = IF res.status_id.n < 3 THEN @ + 1 ELSE @]
                           /\ IF Completed(res) THEN
                                  /\ Return(r, Verdict(res), res)
                                  /\ UNCHANGED sleeps
                              ELSE
                                  /\ Frame(r, "sleep", Undefined, token[r],
                                           startTime[r], now, Undefined)
                                  /\ sleeps' = [sleeps EXCEPT ![r] = @ + 1]
                                  /\ UNCHANGED response
    /\ UNCHANGED <<rapidApiKey, now, nextToken, issued, submits, polls, polledWith>>
    /\ UNCHANGED <<editorVars, functionVars>>

\* The sleep ends: back to the top of the loop.
Wake(r) ==
    /\ pc[r] = "sleep"
    /\ TimerFired(r)
    /\ LoopTop(r, token[r], startTime[r], calls)
    /\ UNCHANGED <<rapidApiKey, now, nextToken, issued, submits, sleeps,
                   pending, failedCall>>
    /\ UNCHANGED <<editorVars, functionVars>>

\* Time passes, a second at a time, while something is awaited or a request
\* may still arrive.  A fetch settles within MaxLatency of its issue and a
\* timer fires when due.
Tick ==
    /\ \/ now < MaxNow
       \/ calls # {}
       \/ \E r \in Reqs : pc[r] = "sleep"
    /\ \A c \in calls : now - c.at < MaxLatency
    /\ \A r \in Reqs : pc[r] = "sleep" => ~TimerFired(r)
    /\ now' = now + 1000
    /\ UNCHANGED <<rapidApiKey, nextToken, issued, pc, language, calls, token,
                   startTime, sleepFrom, result, response, submits, polls,
                   sleeps, pending, polledWith, failedCall>>
    /\ UNCHANGED <<editorVars, functionVars>>

Next ==
    \/ \E r \in Reqs : Serve(r)
    \/ \E r \in Reqs : SubmitResponse(r)
    \/ \E r \in Reqs : PollResponse(r)
    \/ \E r \in Reqs : Wake(r)
    \/ Tick

Spec == Init /\ [][Next]_vars

SpecConcurrent == InitConcurrent /\ [][Next]_vars

\* Every fetch settles, every timer fires and the clock advances.
Fairness ==
    /\ WF_vars(Tick)
    /\ \A r \in Reqs :
        WF_vars(SubmitResponse(r)) /\ WF_vars(PollResponse(r)) /\ WF_vars(Wake(r))

SpecFair == Spec /\ Fairness

-----------------------------------------------------------------------------
(* Strings, as the editor and the tree view take them apart.                 *)

\* s[i - 1]: the character at position i, counted from 1.
Char(s, i) == SubSeq(s, i, i)

\* s.endsWith(suffix)
EndsWith(s, suffix) ==
    /\ Len(s) >= Len(suffix)
    /\ SubSeq(s, Len(s) - Len(suffix) + 1, Len(s)) = suffix

\* s.split(sep), sep being one character.
Split(s, sep) ==
    LET at == {i \in 1..Len(s) : Char(s, i) = sep}
        cut == [k \in 0..(Cardinality(at) + 1) |->
                  IF k = 0 THEN 0
                  ELSE IF k = Cardinality(at) + 1 THEN Len(s) + 1
                  ELSE CHOOSE i \in at : Cardinality({j \in at : j < i}) = k - 1]
    IN [k \in 1..(Cardinality(at) + 1) |-> SubSeq(s, cut[k - 1] + 1, cut[k] - 1)]

\* parts.join(sep)
RECURSIVE Join(_, _)
Join(parts, sep) ==
    IF Len(parts) = 0 THEN ""
    ELSE IF Len(parts) = 1 THEN parts[1]
    ELSE parts[1] \o sep \o Join(Tail(parts), sep)

\* s.replace(/^\//, '')
StripLeadingSlash(s) ==
    IF Len(s) > 0 /\ Char(s, 1) = "/" THEN SubSeq(s, 2, Len(s)) ELSE s

\* s.replace(/\/$/, '')
StripTrailingSlash(s) ==
    IF Len(s) > 0 /\ Char(s, Len(s)) = "/" THEN SubSeq(s, 1, Len(s) - 1) ELSE s

\* s.replace(/\/+/g, '/')
RECURSIVE CollapseSlashes(_)
CollapseSlashes(s) ==
    IF Len(s) < 2 THEN s
    ELSE IF Char(s, 1) = "/" /\ Char(s, 2) = "/" THEN CollapseSlashes(Tail(s))
    ELSE Char(s, 1) \o CollapseSlashes(SubSeq(s, 2, Len(s)))

UpperCase == "ABCDEFGHIJKLMNOPQRSTUVWXYZ"
LowerCase == "abcdefghijklmnopqrstuvwxyz"

IsUpper(c) == \E i \in 1..Len(UpperCase) : Char(UpperCase, i) = c

\* The lower case form of a character.
Lower(c) ==
    IF IsUpper(c)
    THEN Char(LowerCase, CHOOSE i \in 1..Len(UpperCase) : Char(UpperCase, i) = c)
    ELSE c

\* s.toLowerCase()
RECURSIVE toLowerCase(_)
toLowerCase(s) ==
    IF Len(s) = 0 THEN "" ELSE Lower(Char(s, 1)) \o toLowerCase(SubSeq(s, 2, Len(s)))

\* The characters of file names in the order the collation of localeCompare
\* gives them: punctuation, then digits, then letters.
Collation == "_-.0123456789abcdefghijklmnopqrstuvwxyz"

\* The primary weight of a character: its place in the collation, whatever
\* its case.
Weight(c) == CHOOSE i \in 1..Len(Collation) : Char(Collation, i) = Lower(c)

\* a.localeCompare(b): the first difference of primary weight decides, a
\* proper prefix comes first, and between strings that differ in case only
\* the first difference of case decides, lower case first.
localeCompare(a, b) ==
    LET both == IF Len(a) < Len(b) THEN Len(a) ELSE Len(b)
        primary == {i \in 1..both : Weight(Char(a, i)) # Weight(Char(b, i))}
        cased == {i \in 1..both : Char(a, i) # Char(b, i)}
        First(S) == CHOOSE i \in S : \A j \in S : i <= j
    IN IF primary # {} THEN
           IF Weight(Char(a, First(primary))) < Weight(Char(b, First(primary)))
           THEN -1 ELSE 1
       ELSE IF Len(a) # Len(b) THEN (IF Len(a) < Len(b) THEN -1 ELSE 1)
       ELSE IF cased # {} THEN (IF IsUpper(Char(a, First(cased))) THEN 1 ELSE -1)
       ELSE 0

-----------------------------------------------------------------------------
(* File Tree View: buildTree.  The TreeNode objects live in a heap, tree.nodes, *)
(* and refer to each other by their place in it; the root is node 1.         *)

\* const basename = (p) => p.replace(/\/$/, '').split('/').pop() || ''
basename(p) ==
    LET parts == Split(StripTrailingSlash(p), "/") IN parts[Len(parts)]

\* Every path taken as a path of the root.
dirnameOfRoot(p) == ""

\* const dirname = (p) => { parts = p.replace(/^\//, '').split('/'); parts.pop();
\* return parts.join('/') }
dirname(p) ==
    LET parts == Split(StripLeadingSlash(p), "/") IN
    Join(SubSeq(parts, 1, Len(parts) - 1), "/")

FolderNode(name, path) ==
    [type |-> "folder", name |-> name, path |-> path, children |-> <<>>,
     file |-> Null]

FileNode(name, path, f) ==
    [type |-> "file", name |-> name, path |-> path, children |-> <<>>,
     file |-> f]

\* parent.children.push(node), node becoming the next object of the heap.
Push(nodes, parent, node) ==
    Append([nodes EXCEPT ![parent].children = Append(@, Len(nodes) + 1)], node)

\* ensureFolder(folderPath) on the tree b under construction: the tree after
\* the call and the folder node returned.  The keys of folderMap start with
\* '/', so none of them is a property every object inherits.
RECURSIVE ensureFolder(_, _)
ensureFolder(b, folderPath) ==
    LET norm == CollapseSlashes(
                    "/" \o StripTrailingSlash(StripLeadingSlash(folderPath)))
    IN IF norm = "/" THEN [tree |-> b, node |-> 1]
       ELSE IF norm \in DOMAIN b.folderMap
       THEN [tree |-> b, node |-> b.folderMap[norm]]
       ELSE LET up == ensureFolder(b, dirname(norm)) IN
            [tree |-> [nodes |-> Push(up.tree.nodes, up.node,
                                      FolderNode(basename(norm), norm)),
                       folderMap |-> (norm :> (Len(up.tree.nodes) + 1))
                                        @@ up.tree.folderMap],
             node |-> Len(up.tree.nodes) + 1]

\* The marker test left out: every file gets a node.
ShowsEverything(f) == FALSE

\* if (f.path.endsWith('/.keep')) continue
IsPlaceholder(f) == EndsWith(f.path, "/.keep")

\* for (const f of allFiles), from the i-th file on.
RECURSIVE addFiles(_, _, _)
addFiles(b, allFiles, i) ==
    IF i > Len(allFiles) THEN b
    ELSE IF IsPlaceholder(allFiles[i]) THEN addFiles(b, allFiles, i + 1)
    ELSE LET f == allFiles[i]
             full == StripLeadingSlash(f.path)
             parent == ensureFolder(b, dirname(full))
         IN addFiles(
                [parent.tree EXCEPT
                    !.nodes = Push(@, parent.node,
                                   FileNode(basename(full), "/" \o full, f))],
                allFiles, i + 1)

\* The comparator without the test of the type.
compareNames(a, b) == localeCompare(a.name, b.name)

\* (a, b) => { if (a.type !== b.type) return a.type === 'folder' ? -1 : 1;
\* return a.name.localeCompare(b.name) }
compare(a, b) ==
    IF a.type # b.type THEN (IF a.type = "folder" THEN -1 ELSE 1)
    ELSE localeCompare(a.name, b.name)

\* children.sort(compare): the sort is stable.
RECURSIVE sort(_, _)
sort(children, nodes) ==
    IF Len(children) = 0 THEN <<>>
    ELSE LET item == children[Len(children)]
             before == sort(SubSeq(children, 1, Len(children) - 1), nodes)
             k == Cardinality({j \in 1..Len(before) :
                                  compare(nodes[before[j]], nodes[item]) <= 0})
         IN SubSeq(before, 1, k) \o <<item>> \o SubSeq(before, k + 1, Len(before))

\* sortNode(node), and node.children.forEach(sortNode) from the i-th child on.
RECURSIVE sortNode(_, _)
RECURSIVE sortEach(_, _, _)
sortNode(nodes, node) ==
    IF nodes[node].type = "file" THEN nodes
    ELSE LET sorted == sort(nodes[node].children, nodes) IN
         sortEach([nodes EXCEPT ![node].children = sorted], sorted, 1)

sortEach(nodes, children, i) ==
    IF i > Len(children) THEN nodes
    ELSE sortEach(sortNode(nodes, children[i]), children, i + 1)

\* buildTree(allFiles)
buildTree(allFiles) ==
    LET root == FolderNode("", "/")
        built == addFiles([nodes |-> <<root>>, folderMap |-> ("/" :> 1)],
                          allFiles, 1)
    IN [root |-> 1, nodes |-> sortNode(built.nodes, 1)]

\* The CodeFile objects the explorer shows a node for, and offers to select,
\* rename and delete: the loop of buildTree makes a file node of every file
\* that is no placeholder.
Shown(allFiles) ==
    {allFiles[i] : i \in {j \in DOMAIN allFiles : ~IsPlaceholder(allFiles[j])}}

-----------------------------------------------------------------------------
(* Editor Shell: the values it works on.                                     *)

\* User events handled in one session.
MaxEvents == 3

\* The CodeFile made from a row of the files table (loadFiles, handleFileCreate).
CodeFile(row) ==
    [id |-> row.id, name |-> row.filename, content |-> row.content,
     language |-> row.language, path |-> "/" \o row.filename]

\* The rows of the files table when the session starts, oldest first.
StoredRows ==
    <<[id |-> "f1", filename |-> "main.py", content |-> "print(1)",
       language |-> "python"],
      [id |-> "f2", filename |-> "src/app.js", content |-> "",
       language |-> "javascript"],
      [id |-> "f3", filename |-> "notes.txt", content |-> "",
       language |-> "plaintext"]>>

\* What the editor passes to onChange when its content has changed.
EditorValues == {Str(""), Str("x = 1")}

\* The names a file is renamed to.
NewNames == {"Main.CPP"}

\* How an invoke fails: the function answered outside 2xx, or was not reached.
InvokeErrors ==
    {Err("Edge Function returned a non-2xx status code"),
     Err("Failed to send a request to the Edge Function")}

\* The poll results the execute-code function answers a run of the editor
\* with: a run that passed and one that did not compile.
RunResults ==
    {res \in FinishedResults :
        \/ res.status_id = Num(3) /\ res.stdout = Str("Hello, World!\n")
        \/ res.status_id = Num(6)}

\* What invoke('execute-code') resolves with: the body of a 200 response as
\* data, or an error.
RunOutcomes ==
    {[data |-> Verdict(res).body, error |-> Null] : res \in RunResults}
        \cup {[data |-> Null, error |-> e] : e \in InvokeErrors}

\* const getLanguageFromExtension = (filename) => ...
getLanguageFromExtension(filename) ==
    LET parts == Split(filename, ".")
        ext == toLowerCase(parts[Len(parts)])
    IN CASE ext = "py" -> "python"
         [] ext = "js" -> "javascript"
         [] ext = "ts" -> "typescript"
         [] ext \in {"cpp", "cc", "cxx"} -> "cpp"
         [] ext = "java" -> "java"
         [] ext = "c" -> "c"
         [] ext = "cs" -> "csharp"
         [] ext = "php" -> "php"
         [] ext = "rb" -> "ruby"
         [] ext = "go" -> "go"
         [] ext = "rs" -> "rust"
         [] OTHER -> "plaintext"

\* The suspended call of an async handler: the invoke it awaits and what its
\* closure holds of the render it was called in.
Invocation(kind, fileId, body, fs, tabs, active) ==
    [kind |-> kind, n |-> invoked + 1, fileId |-> fileId, body |-> body,
     files |-> fs, openTabs |-> tabs, activeFile |-> active]

-----------------------------------------------------------------------------
(* Editor Shell: the handlers.  A handler called by a user event runs with    *)
(* the state of the last render; the code after an await runs with the state *)
(* its closure captured when the handler was called.                         *)

\* The session starts: the component is mounted and loadFiles is called.
Mounted ==
    /\ files = <<>>
    /\ activeFile = Null
    /\ openTabs = <<>>
    /\ output = Null
    /\ isRunning = FALSE
    /\ runAction = Null
    /\ tree = Null
    /\ invocations = {[kind |-> "load", n |-> 1, fileId |-> "", body |-> Undefined,
                       files |-> <<>>, openTabs |-> <<>>, activeFile |-> Null]}
    /\ invoked = 1
    /\ table = StoredRows
    /\ nextRowId = Len(StoredRows) + 1
    /\ events = 0
    /\ last = NotCalled

\* The component renders with the state the handler has set.  The editor is
\* rendered while there is an active file; handleEditorDidMount registers the
\* 'run-code' action when it mounts, with the handleRunCode of that render.
\* The tree of the explorer is left to the specification of the tree view.
Render(fs, active, tabs) ==
    /\ files' = fs
    /\ activeFile' = active
    /\ openTabs' = tabs
    /\ runAction' = IF active = Null THEN Null
                    ELSE IF activeFile = Null THEN active
                    ELSE runAction
    /\ tree' = tree

\* A handler that clears the file collection, the tabs and the active file.
Emptied == Render(<<>>, Null, <<>>)

\* A handler that sets none of files, activeFile and openTabs.
Kept == Render(files, activeFile, openTabs)

\* The handler that ran last, the file it was called for, the id of the file
\* that was active then, and whether it ran to its end without an error.
Called(handler, fileId, ok) ==
    last' = [handler |-> handler, fileId |-> fileId, ok |-> ok,
             active |-> IF activeFile = Null THEN "" ELSE activeFile.id]

\* The user does something: a click, a key.
UserEvent(handler, fileId) ==
    /\ events < MaxEvents
    /\ events' = events + 1
    /\ Called(handler, fileId, TRUE)
    /\ UNCHANGED <<handlerVars, functionVars>>

\* The invoke of inv has settled, with or without an error, and the handler
\* goes on.
Settled(inv, handler, ok) ==
    /\ invocations' = invocations \ {inv}
    /\ Called(handler, inv.fileId, ok)
    /\ UNCHANGED <<handlerVars, functionVars, events, invoked>>

\* loadFiles, after its await.
LoadFilesResponse(inv) ==
    /\ inv.kind = "load"
    /\ \/ \* if (error) throw error
          /\ Settled(inv, "loadFiles", FALSE)
          /\ Kept
       \/ LET loadedFiles ==
                  [i \in 1..Len(table) |-> CodeFile(table[Len(table) + 1 - i])]
          IN /\ Settled(inv, "loadFiles", TRUE)
             /\ IF Len(loadedFiles) > 0 /\ inv.activeFile = Null
                THEN Render(loadedFiles, loadedFiles[1], <<loadedFiles[1]>>)
                ELSE Render(loadedFiles, activeFile, openTabs)
    /\ UNCHANGED <<output, isRunning, table, nextRowId>>

\* handleFileSelect(file), for a file of the explorer that is not both
\* active and open.
FileSelect(file) ==
    /\ file # activeFile \/ \A i \in DOMAIN openTabs : openTabs[i].id # file.id
    /\ UserEvent("handleFileSelect", file.id)
    /\ Render(files, file,
              IF \E i \in DOMAIN openTabs : openTabs[i].id = file.id
              THEN openTabs ELSE Append(openTabs, file))
    /\ UNCHANGED <<output, isRunning, invocations, invoked, table, nextRowId>>

\* onTabSelect={setActiveFile}, for a tab of the tab bar other than the
\* active one.
TabSelect(tab) ==
    /\ tab # activeFile
    /\ UserEvent("setActiveFile", tab.id)
    /\ Render(files, tab, openTabs)
    /\ UNCHANGED <<output, isRunning, invocations, invoked, table, nextRowId>>

\* The first tab selected for the last.
FirstTab(newTabs) == IF Len(newTabs) > 0 THEN newTabs[1] ELSE Null

\* newTabs.length > 0 ? newTabs[newTabs.length - 1] : null
LastTab(newTabs) == IF Len(newTabs) > 0 THEN newTabs[Len(newTabs)] ELSE Null

\* openTabs.filter(tab => tab.id !== fileId)
NewTabs(tabs, fileId) == SelectSeq(tabs, LAMBDA tab : tab.id # fileId)

\* handleTabClose(fileId), in a closure holding tabs and active, the handler
\* having set the file collection to fs.
handleTabClose(fs, tabs, active, fileId) ==
    LET newTabs == NewTabs(tabs, fileId) IN
    Render(fs,
           IF active # Null /\ active.id = fileId THEN LastTab(newTabs)
           ELSE activeFile,
           newTabs)

\* onTabClose={handleTabClose}, for a tab of the tab bar.
TabClose(fileId) ==
    /\ UserEvent("handleTabClose", fileId)
    /\ handleTabClose(files, openTabs, activeFile, fileId)
    /\ UNCHANGED <<output, isRunning, invocations, invoked, table, nextRowId>>

\* The list left as it is.
NotPropagated(list, id, updatedFile) == list

\* list.map(file => file.id === activeFile.id ? updatedFile : file)
Propagated(list, id, updatedFile) ==
    [i \in DOMAIN list |-> IF list[i].id = id THEN updatedFile ELSE list[i]]

\* handleEditorChange(value): the editor, mounted while there is an active
\* file, reports that its content has changed to value.
EditorChange(value) ==
    /\ activeFile # Null
    /\ value.s # activeFile.content
    /\ UserEvent("handleEditorChange", activeFile.id)
    /\ IF activeFile # Null /\ value # Undefined THEN
           LET updatedFile == [activeFile EXCEPT !.content = value.s] IN
           Render(Propagated(files, activeFile.id, updatedFile), updatedFile,
                  Propagated(openTabs, activeFile.id, updatedFile))
       ELSE Kept
    /\ UNCHANGED <<output, isRunning, invocations, invoked, table, nextRowId>>

\* handleRunCode, in a closure holding active, up to its await.
handleRunCode(active) ==
    IF active = Null THEN
        UNCHANGED <<isRunning, output, invocations, invoked>>
    ELSE
        /\ isRunning' = TRUE
        /\ output' = Null
        /\ invocations' = invocations \cup
              {Invocation("run", active.id,
                          [code |-> active.content, language |-> active.language],
                          <<>>, <<>>, Null)}
        /\ invoked' = invoked + 1

\* The Run button of the toolbar: disabled={isRunning || !activeFile}.
RunButton ==
    /\ ~(isRunning \/ activeFile = Null)
    /\ UserEvent("handleRunCode", activeFile.id)
    /\ handleRunCode(activeFile)
    /\ Kept
    /\ UNCHANGED <<table, nextRowId>>

\* Ctrl/Cmd+Enter in the editor: the 'run-code' action.
RunKey ==
    /\ runAction # Null
    /\ UserEvent("run-code", runAction.id)
    /\ handleRunCode(runAction)
    /\ Kept
    /\ UNCHANGED <<table, nextRowId>>

\* The catch block setting nothing.
FailureDropped(error) == Null

\* The output the catch block of handleRunCode sets.
RunFailure(error) ==
    [stderr |-> Str("Execution failed: " \o error.message.s),
     status_description |-> Str("Runtime Error")]

\* handleRunCode, after its await.
RunResponse(inv) ==
    /\ inv.kind = "run"
    /\ \E o \in RunOutcomes :
          IF o.error # Null THEN
              /\ Settled(inv, "handleRunCode", FALSE)
              /\ output' = RunFailure(o.error)
          ELSE
              /\ Settled(inv, "handleRunCode", TRUE)
              /\ output' = o.data
    /\ isRunning' = FALSE
    /\ Kept
    /\ UNCHANGED <<table, nextRowId>>

\* handleFileCreate(name, type), up to its await: the explorer's New File.
\* For New Folder the handler does nothing.
FileCreate(name, type) ==
    /\ type = "file"
    /\ UserEvent("handleFileCreate", "")
    /\ invocations' = invocations \cup
          {Invocation("create", "",
                      [filename |-> name, content |-> "",
                       language |-> getLanguageFromExtension(name)],
                      files, <<>>, Null)}
    /\ invoked' = invoked + 1
    /\ Kept
    /\ UNCHANGED <<output, isRunning, table, nextRowId>>

\* The row the files function inserts for a create.
Inserted(payload) ==
    [id |-> "f" \o DecimalString(nextRowId), filename |-> payload.filename,
     content |-> IF payload.content # "" THEN payload.content ELSE "",
     language |-> IF payload.language # "" THEN payload.language ELSE "javascript"]

\* handleFileCreate, after its await.
FileCreateResponse(inv) ==
    /\ inv.kind = "create"
    /\ \/ \* if (error) throw error
          /\ Settled(inv, "handleFileCreate", FALSE)
          /\ Kept
          /\ UNCHANGED <<table, nextRowId>>
       \/ LET data == Inserted(inv.body) IN
          /\ Settled(inv, "handleFileCreate", TRUE)
          /\ table' = Append(table, data)
          /\ nextRowId' = nextRowId + 1
          /\ Render(Append(inv.files, CodeFile(data)), activeFile, openTabs)
    /\ UNCHANGED <<output, isRunning>>

\* handleFileDelete(fileId), up to its await: Delete in the menu of a file.
FileDelete(fileId) ==
    /\ UserEvent("handleFileDelete", fileId)
    /\ invocations' = invocations \cup
          {Invocation("delete", fileId, <<>>, files, openTabs, activeFile)}
    /\ invoked' = invoked + 1
    /\ Kept
    /\ UNCHANGED <<output, isRunning, table, nextRowId>>

\* Every file kept.
NoneRemoved(fs, fileId) == fs

\* files.filter(file => file.id !== fileId)
RemainingFiles(fs, fileId) == SelectSeq(fs, LAMBDA file : file.id # fileId)

\* handleFileDelete, after its await.
FileDeleteResponse(inv) ==
    /\ inv.kind = "delete"
    /\ \/ \* if (error) throw error
          /\ Settled(inv, "handleFileDelete", FALSE)
          /\ Kept
          /\ UNCHANGED table
       \/ /\ Settled(inv, "handleFileDelete", TRUE)
          /\ table' = SelectSeq(table, LAMBDA row : row.id # inv.fileId)
          /\ handleTabClose(RemainingFiles(inv.files, inv.fileId),
                            inv.openTabs, inv.activeFile, inv.fileId)
    /\ UNCHANGED <<output, isRunning, nextRowId>>

\* handleFileRename(fileId, newName), up to its await: the rename field of a
\* file is confirmed.
FileRename(fileId, newName) ==
    /\ UserEvent("handleFileRename", fileId)
    /\ LET found == {i \in DOMAIN files : files[i].id = fileId} IN
       IF found = {} THEN UNCHANGED <<invocations, invoked>>
       ELSE LET file == files[CHOOSE i \in found : \A j \in found : i <= j] IN
            /\ invocations' = invocations \cup
                  {Invocation("rename", fileId,
                              [filename |-> newName, content |-> file.content,
                               language |-> getLanguageFromExtension(newName)],
                              files, <<>>, Null)}
            /\ invoked' = invoked + 1
    /\ Kept
    /\ UNCHANGED <<output, isRunning, table, nextRowId>>

\* { ...f, name: newName, language: getLanguageFromExtension(newName) }
Renamed(f, newName) ==
    [f EXCEPT !.name = newName, !.language = getLanguageFromExtension(newName)]

\* handleFileRename, after its await.  The files function answers 500 when
\* no row has the id.
FileRenameResponse(inv) ==
    /\ inv.kind = "rename"
    /\ \/ \* if (error) throw error
          /\ Settled(inv, "handleFileRename", FALSE)
          /\ Kept
          /\ UNCHANGED table
       \/ /\ \E i \in DOMAIN table : table[i].id = inv.fileId
          /\ Settled(inv, "handleFileRename", TRUE)
          /\ table' = [i \in DOMAIN table |->
                          IF table[i].id = inv.fileId
                          THEN [table[i] EXCEPT !.filename = inv.body.filename,
                                                !.content = inv.body.content,
                                                !.language = inv.body.language]
                          ELSE table[i]]
          /\ Render([i \in DOMAIN inv.files |->
                        IF inv.files[i].id = inv.fileId
                        THEN Renamed(inv.files[i], inv.body.filename)
                        ELSE inv.files[i]],
                    activeFile, openTabs)
    /\ UNCHANGED <<output, isRunning, nextRowId>>

NextEditor ==
    \/ \E inv \in invocations : LoadFilesResponse(inv)
    \/ \E file \in Shown(files) : FileSelect(file)
    \/ \E i \in DOMAIN openTabs : TabSelect(openTabs[i])
    \/ \E i \in DOMAIN openTabs : TabClose(openTabs[i].id)
    \/ \E value \in EditorValues : EditorChange(value)
    \/ RunButton
    \/ RunKey
    \/ \E inv \in invocations : RunResponse(inv)
    \/ \E type \in {"file", "folder"} : FileCreate("new-file.txt", type)
    \/ \E inv \in invocations : FileCreateResponse(inv)
    \/ \E file \in Shown(files) : FileDelete(file.id)
    \/ \E inv \in invocations : FileDeleteResponse(inv)
    \/ \E file \in Shown(files), newName \in NewNames : FileRename(file.id, newName)
    \/ \E inv \in invocations : FileRenameResponse(inv)

\* A browser session of the editor; the edge function is modelled by what
\* invoke resolves with.
InitEditor == Deployed({Str("key")}, {}) /\ Mounted

SpecEditor == InitEditor /\ [][NextEditor]_vars

\* The session without the handlers of the explorer, none of which sets
\* isRunning or output: the files stay the files loaded.
NextRun ==
    \/ \E inv \in invocations : LoadFilesResponse(inv)
    \/ \E file \in Shown(files) : FileSelect(file)
    \/ \E i \in DOMAIN openTabs : TabSelect(openTabs[i])
    \/ \E i \in DOMAIN openTabs : TabClose(openTabs[i].id)
    \/ \E value \in EditorValues : EditorChange(value)
    \/ RunButton
    \/ RunKey
    \/ \E inv \in invocations : RunResponse(inv)

\* Every invoke of execute-code settles.
SpecRun ==
    InitEditor /\ [][NextRun]_vars
        /\ WF_vars(\E inv \in invocations : RunResponse(inv))

-----------------------------------------------------------------------------
(* Editor Shell: saving.  handleSaveFile sets no state of the component; what *)
(* it does is in the files table.                                             *)

\* handleSaveFile(file), up to its await.
handleSaveFile(file) ==
    /\ invocations' = invocations \cup
          {Invocation("save", file.id,
                      [filename |-> file.name, content |-> file.content,
                       language |-> file.language],
                      <<>>, <<>>, Null)}
    /\ invoked' = invoked + 1

\* The Save button of the toolbar: disabled={!activeFile},
\* onSaveFile={() => activeFile && handleSaveFile(activeFile)}.
SaveButton ==
    /\ activeFile # Null
    /\ UserEvent("handleSaveFile", activeFile.id)
    /\ handleSaveFile(activeFile)
    /\ Kept
    /\ UNCHANGED <<output, isRunning, table, nextRowId>>

\* Ctrl/Cmd+S in the editor: the 'save-file' action, with the activeFile of
\* the render the editor was mounted in.
SaveKey ==
    /\ runAction # Null
    /\ UserEvent("save-file", runAction.id)
    /\ handleSaveFile(runAction)
    /\ Kept
    /\ UNCHANGED <<output, isRunning, table, nextRowId>>

\* handleSaveFile, after its await: the request had a filename and no id in
\* its path, so the files function has inserted a row.
SaveResponse(inv) ==
    /\ inv.kind = "save"
    /\ \/ \* if (error) throw error
          /\ Settled(inv, "handleSaveFile", FALSE)
          /\ UNCHANGED <<table, nextRowId>>
       \/ /\ Settled(inv, "handleSaveFile", TRUE)
          /\ table' = Append(table, Inserted(inv.body))
          /\ nextRowId' = nextRowId + 1
    /\ Kept
    /\ UNCHANGED <<output, isRunning>>

\* The session of one who selects, edits, runs and saves.
NextSave ==
    \/ \E inv \in invocations : LoadFilesResponse(inv)
    \/ \E file \in Shown(files) : FileSelect(file)
    \/ \E i \in DOMAIN openTabs : TabSelect(openTabs[i])
    \/ \E i \in DOMAIN openTabs : TabClose(openTabs[i].id)
    \/ \E value \in EditorValues : EditorChange(value)
    \/ RunButton
    \/ RunKey
    \/ \E inv \in invocations : RunResponse(inv)
    \/ SaveButton
    \/ SaveKey
    \/ \E inv \in invocations : SaveResponse(inv)

SpecSave == InitEditor /\ [][NextSave]_vars

-----------------------------------------------------------------------------
(* The files edge function (serve of the files function): the action is      *)
(* inferred from the method, the path and the body of the request.           *)

\* Requests served one after the other.
MaxRequests == 2

\* The value JSON.parse gives for an object, and for the array [].
JObject(fields) == [t |-> "object", fields |-> fields]
JArray == [t |-> "array"]

\* The text is a string literal of JSON without escapes.
IsQuoted(text) ==
    /\ Len(text) >= 2
    /\ Char(text, 1) = "\"" /\ Char(text, Len(text)) = "\""
    /\ \A i \in 2..(Len(text) - 1) : Char(text, i) # "\""

Unquoted(text) == SubSeq(text, 2, Len(text) - 1)

\* JSON.parse of a text without white space: null, [], a string, or an object
\* of such strings; for any other text it throws.
JSONparse(text) ==
    IF text = "null" THEN [ok |-> TRUE, value |-> Null]
    ELSE IF text = "[]" THEN [ok |-> TRUE, value |-> JArray]
    ELSE IF IsQuoted(text) THEN [ok |-> TRUE, value |-> Str(Unquoted(text))]
    ELSE IF text = "{}" THEN [ok |-> TRUE, value |-> JObject(<<>>)]
    ELSE IF Len(text) > 2 /\ Char(text, 1) = "{" /\ Char(text, Len(text)) = "}"
    THEN LET members == Split(Unquoted(text), ",")
             pairs == [m \in DOMAIN members |-> Split(members[m], ":")]
             wellFormed == \A m \in DOMAIN pairs :
                               /\ Len(pairs[m]) = 2
                               /\ IsQuoted(pairs[m][1]) /\ IsQuoted(pairs[m][2])
             keys == {Unquoted(pairs[m][1]) : m \in DOMAIN pairs}
             lastOf(k) == CHOOSE m \in DOMAIN pairs :
                              /\ Unquoted(pairs[m][1]) = k
                              /\ \A o \in DOMAIN pairs :
                                    Unquoted(pairs[o][1]) = k => o <= m
         IN IF wellFormed
            THEN [ok |-> TRUE,
                  value |-> JObject([k \in keys |->
                                        Str(Unquoted(pairs[lastOf(k)][2]))])]
            ELSE [ok |-> FALSE, value |-> Undefined]
    ELSE [ok |-> FALSE, value |-> Undefined]

\* payload = bodyText ? JSON.parse(bodyText) : {}, and {} when that throws.
Payload(bodyText) ==
    IF bodyText = "" THEN JObject(<<>>)
    ELSE IF JSONparse(bodyText).ok THEN JSONparse(bodyText).value
    ELSE JObject(<<>>)

\* const maybeId = pathSegments[pathSegments.length - 1], '' for undefined.
maybeId(pathname) ==
    LET pathSegments == SelectSeq(Split(pathname, "/"), LAMBDA x : x # "") IN
    IF Len(pathSegments) = 0 THEN "" ELSE pathSegments[Len(pathSegments)]

\* const isIdPath = maybeId && maybeId !== 'files'
isIdPath(pathname) == maybeId(pathname) # "" /\ maybeId(pathname) # "files"

\* Object.keys(payload).length === 0, where it does not throw.
NoKeys(payload) ==
    CASE payload.t = "object" -> DOMAIN payload.fields = {}
      [] payload.t = "array" -> TRUE
      [] payload.t = "string" -> payload.s = ""
      [] OTHER -> TRUE

\* key in payload, where it does not throw.
In(key, payload) == payload.t = "object" /\ key \in DOMAIN payload.fields

\* typeof payload.filename === 'string', where it does not throw.
HasFilename(payload) ==
    In("filename", payload) /\ payload.fields["filename"].t = "string"

\* The four flags are computed one after the other, && and || leaving out
\* what they need not evaluate: Object.keys(null), and `in` with a right-hand
\* side that is no object, throw a TypeError.
TypeError(method, pathname, payload) ==
    \/ ~isIdPath(pathname) /\ method = "POST" /\ payload = Null
    \/ /\ isIdPath(pathname) /\ method \in {"PUT", "POST"}
       /\ payload.t \notin {"object", "array"}

isList(method, pathname, payload) ==
    ~isIdPath(pathname)
        /\ (method = "GET" \/ (method = "POST" /\ NoKeys(payload)))

isCreate(method, pathname, payload) ==
    ~isIdPath(pathname) /\ method = "POST" /\ HasFilename(payload)

isUpdate(method, pathname, payload) ==
    /\ isIdPath(pathname)
    /\ method \in {"PUT", "POST"}
    /\ (In("filename", payload) \/ In("content", payload)
            \/ In("language", payload))

\* const isDelete = isIdPath && (DELETE || (POST && no keys in payload)); the
\* text of the body is not looked at.
isDelete(method, pathname, bodyText, payload) ==
    /\ isIdPath(pathname)
    /\ (method = "DELETE" \/ (method = "POST" /\ NoKeys(payload)))

\* The field of the payload as the column receives it, '' when it is absent.
Field(payload, key) ==
    IF In(key, payload) THEN payload.fields[key].s ELSE ""

\* The row with the fields of the payload written over it.
Updated(row, payload) ==
    [row EXCEPT
        !.filename = IF In("filename", payload) THEN Field(payload, "filename") ELSE @,
        !.content = IF In("content", payload) THEN Field(payload, "content") ELSE @,
        !.language = IF In("language", payload) THEN Field(payload, "language") ELSE @]

\* The number of requests served so far.
RequestsServed == IF served = Null THEN 0 ELSE served.n

\* What serve has done for a request.
Replied(method, pathname, bodyText, selected, action, status) ==
    served' = [n |-> RequestsServed + 1,
               method |-> method, pathname |-> pathname, bodyText |-> bodyText,
               selected |-> selected, action |-> action, status |-> status]

\* serve of the files function, for one request.
ServeFiles(method, pathname, bodyText) ==
    /\ RequestsServed < MaxRequests
    /\ LET payload == Payload(bodyText)
           id == maybeId(pathname)
           selected ==
               {a \in {"list", "create", "update", "delete"} :
                   CASE a = "list" -> isList(method, pathname, payload)
                     [] a = "create" -> isCreate(method, pathname, payload)
                     [] a = "update" -> isUpdate(method, pathname, payload)
                     [] a = "delete" ->
                            isDelete(method, pathname, bodyText, payload)}
           reply(chosen, action, status) ==
               Replied(method, pathname, bodyText, chosen, action, status)
       IN IF method = "OPTIONS" THEN
              reply({}, "none", 200) /\ UNCHANGED <<table, nextRowId>>
          ELSE IF TypeError(method, pathname, payload) THEN
              reply({}, "none", 500) /\ UNCHANGED <<table, nextRowId>>
          ELSE IF "list" \in selected THEN
              reply(selected, "list", 200) /\ UNCHANGED <<table, nextRowId>>
          ELSE IF "create" \in selected THEN
              /\ reply(selected, "create", 200)
              /\ table' = Append(table,
                     Inserted([filename |-> Field(payload, "filename"),
                               content |-> Field(payload, "content"),
                               language |-> Field(payload, "language")]))
              /\ nextRowId' = nextRowId + 1
          ELSE IF "update" \in selected THEN
              IF \E k \in DOMAIN table : table[k].id = id
              THEN /\ reply(selected, "update", 200)
                   /\ table' = [k \in DOMAIN table |->
                                  IF table[k].id = id
                                  THEN Updated(table[k], payload) ELSE table[k]]
                   /\ UNCHANGED nextRowId
              ELSE \* .single() finds no row
                   reply(selected, "update", 500) /\ UNCHANGED <<table, nextRowId>>
          ELSE IF "delete" \in selected THEN
              /\ reply(selected, "delete", 200)
              /\ table' = SelectSeq(table, LAMBDA row : row.id # id)
              /\ UNCHANGED nextRowId
          ELSE reply(selected, "none", 400) /\ UNCHANGED <<table, nextRowId>>
    /\ UNCHANGED <<handlerVars, copilot, files, activeFile, openTabs, output,
                   isRunning, runAction, tree, invocations, invoked, events, last>>

Methods == {"OPTIONS", "GET", "POST", "PUT", "DELETE"}

\* The function is reached at /files; f1 is a row, f9 is none.
Pathnames == {"/files", "/files/f1", "/files/f9"}

\* No body, the empty object, objects with a field, values that are no
\* object, and a text that is no JSON.
BodyTexts ==
    {"", "{}", "{\"filename\":\"a.txt\"}", "{\"content\":\"x = 1\"}",
     "[]", "null", "\"text\"", "not json"}

NextFiles ==
    \E method \in Methods, pathname \in Pathnames, bodyText \in BodyTexts :
        ServeFiles(method, pathname, bodyText)

\* The function deployed over the table of the stored rows.
InitFiles ==
    /\ Deployed({Str("key")}, {})
    /\ files = <<>> /\ tree = Null /\ activeFile = Null /\ openTabs = <<>>
    /\ output = Null /\ isRunning = FALSE /\ runAction = Null
    /\ invocations = {} /\ invoked = 0 /\ events = 0 /\ last = NotCalled
    /\ table = StoredRows
    /\ nextRowId = Len(StoredRows) + 1

SpecFiles == InitFiles /\ [][NextFiles]_vars

-----------------------------------------------------------------------------
(* The AICopilot component and the ai-copilot edge function: a project       *)
(* structure is generated for a prompt and applied at once, or after the      *)
(* preview when the function has found a conflict with an existing file.      *)

\* Files in the answer of the model.
MaxGenerated == 2

\* s.replace(/^\/+/, '')
RECURSIVE StripLeadingSlashes(_)
StripLeadingSlashes(s) ==
    IF Len(s) > 0 /\ Char(s, 1) = "/" THEN StripLeadingSlashes(SubSeq(s, 2, Len(s)))
    ELSE s

\* The existingFiles of the request: one entry per normalised path, in the
\* order the paths were first set in normalizedMap.
RECURSIVE normalizedMap(_)
normalizedMap(existingFiles) ==
    IF Len(existingFiles) = 0 THEN <<>>
    ELSE LET before == normalizedMap(SubSeq(existingFiles, 1, Len(existingFiles) - 1))
             f == existingFiles[Len(existingFiles)]
             entry == [path |-> "/" \o StripLeadingSlashes(f.path)]
         IN IF \E i \in DOMAIN before : before[i].path = entry.path
            THEN before ELSE Append(before, entry)

\* const hasConflicts = projectStructure.files.some(file =>
\*     existingPaths.has(file.path))
hasConflicts(projectStructure, existingFiles) ==
    LET existingPaths == {existingFiles[i].path : i \in DOMAIN existingFiles} IN
    \E i \in DOMAIN projectStructure.files :
        projectStructure.files[i].path \in existingPaths

\* The paths of the project the component is rendered with, and the paths
\* the model names: relative, as the prompt asks for, or with a slash.
GeneratedPaths == {"main.py", "/main.py", "src/app.js", "utils.py"}

ExistingLists ==
    {<<>>, <<[path |-> "/main.py"]>>,
     <<[path |-> "/main.py"], [path |-> "/src/app.js"]>>,
     <<[path |-> "src/app.js"], [path |-> "/src/app.js"]>>}

\* What the model answers with: files and its own hasConflicts.
ModelAnswers ==
    {[files |-> fs, hasConflicts |-> flag] :
        fs \in UNION {[1..n -> {[path |-> g] : g \in GeneratedPaths}] :
                         n \in 0..MaxGenerated},
        flag \in BOOLEAN}

\* handleSubmit up to its await, the prompt not being empty.
CopilotSubmit(existingFiles) ==
    /\ copilot = Null
    /\ copilot' = [phase |-> "generating", project |-> existingFiles,
                   existingFiles |-> normalizedMap(existingFiles),
                   structure |-> Null, showPreview |-> FALSE,
                   previewData |-> Null, generated |-> Null, confirmed |-> FALSE]
    /\ UNCHANGED <<handlerVars, editorVars, served>>

\* The function answers: with the structure of the model, hasConflicts set by
\* the function, or with an error; and handleSubmit goes on.
CopilotResponse ==
    /\ copilot # Null /\ copilot.phase = "generating"
    /\ \/ \* if (error) throw error
          copilot' = [copilot EXCEPT !.phase = "failed"]
       \/ \E answer \in ModelAnswers :
            LET structure ==
                    [answer EXCEPT
                        !.hasConflicts = hasConflicts(answer, copilot.existingFiles)]
            IN IF structure.hasConflicts
               THEN copilot' = [copilot EXCEPT
                                   !.phase = "preview", !.structure = structure,
                                   !.previewData = structure, !.showPreview = TRUE]
               ELSE \* onFilesGenerated(structure)
                    copilot' = [copilot EXCEPT
                                   !.phase = "generated", !.structure = structure,
                                   !.generated = structure]
    /\ UNCHANGED <<handlerVars, editorVars, served>>

\* handleConfirmGeneration: the button of the preview dialog.
ConfirmGeneration ==
    /\ copilot # Null /\ copilot.showPreview
    /\ copilot.previewData # Null
    /\ copilot' = [copilot EXCEPT
                      !.phase = "generated", !.generated = copilot.previewData,
                      !.previewData = Null, !.showPreview = FALSE,
                      !.confirmed = TRUE]
    /\ UNCHANGED <<handlerVars, editorVars, served>>

\* Cancel, or the dialog closed: setShowPreview(false).
CancelPreview ==
    /\ copilot # Null /\ copilot.showPreview
    /\ copilot' = [copilot EXCEPT !.phase = "cancelled", !.showPreview = FALSE]
    /\ UNCHANGED <<handlerVars, editorVars, served>>

NextCopilot ==
    \/ \E existingFiles \in ExistingLists : CopilotSubmit(existingFiles)
    \/ CopilotResponse
    \/ ConfirmGeneration
    \/ CancelPreview

InitCopilot == Deployed({Str("key")}, {}) /\ NoSession

SpecCopilot == InitCopilot /\ [][NextCopilot]_vars

-----------------------------------------------------------------------------
(* The File Tree View on its own: the explorer is rendered with a file list.  *)

\* Files in a list the explorer is rendered with.
MaxListed == 3

ProjectPaths ==
    <<"/main.py", "/README.md", "/src/app.js", "/src/Zed.js", "/src/lib/util.ts",
      "/src/.keep", "/docs/.keep">>

\* Files of a project: at the root and in folders, markers of folders, names
\* in both cases.
ProjectFiles ==
    {[id |-> "p" \o DecimalString(i), name |-> basename(ProjectPaths[i]),
      content |-> "", language |-> "plaintext", path |-> ProjectPaths[i]] :
        i \in DOMAIN ProjectPaths}

\* The lists of at most MaxListed different files.
FileLists ==
    {list \in UNION {[1..n -> ProjectFiles] : n \in 0..MaxListed} :
        \A i, j \in DOMAIN list : i # j => list[i] # list[j]}

InitTree ==
    /\ Deployed({Str("key")}, {})
    /\ Unmounted
    /\ files \in FileLists
    /\ tree = Null

\* const tree = buildTree(files)
RenderExplorer ==
    /\ tree' = buildTree(files)
    /\ UNCHANGED <<handlerVars, functionVars, files, activeFile, openTabs, output, isRunning,
                   runAction, invocations, invoked, table, nextRowId, events,
                   last>>

NextTree == RenderExplorer

SpecTree == InitTree /\ [][NextTree]_vars

-----------------------------------------------------------------------------
(* Properties.                                                               *)

\* The request has returned.
Done(r) == pc[r] = "done"

\* The request has returned a verdict: the 200 response built from a poll
\* result (the OPTIONS answer has no body).
ReturnedVerdict(r) ==
    Done(r) /\ response[r].status = 200 /\ response[r].body # Null

\* The language ids of the interface table.
LanguageIdTable ==
    [python |-> 71, javascript |-> 63, typescript |-> 74, cpp |-> 54, c |-> 50,
     java |-> 62, csharp |-> 51, php |-> 68, ruby |-> 72, go |-> 60, rust |-> 73]

\* C1: the language_id of every submit is the table value of the request's
\* language when the table has it, and 63 for every other value of language.
C1_LanguageMapping ==
    \A c \in calls :
        c.kind = "submit" =>
            LET l == language[c.req] IN
            /\ "language_id" \in DOMAIN c.body
            /\ c.body.language_id =
                  Num(IF l.t = "string" /\ l.s \in DOMAIN LanguageIdTable
                      THEN LanguageIdTable[l.s] ELSE 63)

\* A gateway field that is there: neither missing nor null.
Present(v) == v.t \notin {"undefined", "null"}

\* The field of a returned verdict is the gateway's value when present and
\* the default d when absent.
DefaultedWhenAbsent(r, field, d) ==
    /\ field \in DOMAIN response[r].body
    /\ response[r].body[field] =
          IF Present(result[r][field]) THEN result[r][field] ELSE d

\* C2 as claimed: in every returned verdict all six fields are defined, and
\* each of stdout, stderr, compile_output, time and memory is the gateway's
\* value when present and "", "", "", "0", 0 when absent.
C2_NormalizedWhenAbsent ==
    \A r \in Reqs :
        ReturnedVerdict(r) =>
            /\ DefaultedWhenAbsent(r, "stdout", Str(""))
            /\ DefaultedWhenAbsent(r, "stderr", Str(""))
            /\ DefaultedWhenAbsent(r, "compile_output", Str(""))
            /\ DefaultedWhenAbsent(r, "time", Str("0"))
            /\ DefaultedWhenAbsent(r, "memory", Num(0))
            /\ "status_description" \in DOMAIN response[r].body
            /\ response[r].body.status_description = result[r].status_description

\* C2, amended: as claimed for stdout, stderr, compile_output and memory; time
\* is the gateway's value when present and not the empty string, and "0" when
\* absent or empty.
C2_Normalized ==
    \A r \in Reqs :
        ReturnedVerdict(r) =>
            /\ DefaultedWhenAbsent(r, "stdout", Str(""))
            /\ DefaultedWhenAbsent(r, "stderr", Str(""))
            /\ DefaultedWhenAbsent(r, "compile_output", Str(""))
            /\ DefaultedWhenAbsent(r, "memory", Num(0))
            /\ "time" \in DOMAIN response[r].body
            /\ response[r].body.time =
                  IF Present(result[r].time) /\ result[r].time # Str("")
                  THEN result[r].time ELSE Str("0")
            /\ "status_description" \in DOMAIN response[r].body
            /\ response[r].body.status_description = result[r].status_description

\* A verdict was returned for a result that has compile_output but neither
\* stdout nor time.
C2_Witness ==
    /\ ReturnedVerdict("r1")
    /\ ~Present(result["r1"].stdout)
    /\ ~Present(result["r1"].time)
    /\ Present(result["r1"].compile_output)
    /\ response["r1"].body.time = Str("0")

\* The response the claims describe for a failure with the given message.
ErrorResponse(m) ==
    [status |-> 500,
     body |-> [error |-> Str(m), stderr |-> Str("Execution failed: " \o m),
               status_description |-> Str("Runtime Error")]]

\* A failure answered in the shape of a verdict: stderr is a non-empty string
\* and status.description is "Runtime Error".
ErrorShape(resp) ==
    /\ resp.status = 500
    /\ {"stderr", "status_description"} \subseteq DOMAIN resp.body
    /\ resp.body.stderr.t = "string"
    /\ Len(resp.body.stderr.s) > 0
    /\ resp.body.status_description = Str("Runtime Error")

\* The gateway calls of request r that are outstanding.
Outstanding(r) == {c \in calls : c.req = r}

\* C3: a run whose submit succeeded and whose polls were all answered with a
\* status id < 3 ends with the 'Execution timeout' failure; no poll is issued
\* once 10 seconds have elapsed since the loop started, and the loop is left
\* for the timeout only then; when every fetch settles, every timer fires and
\* the clock advances, a run that polls ends.
C3_PollLoopTerminates ==
    /\ [](\A r \in Reqs :
            Done(r) /\ polls[r] > 0 /\ pending[r] = polls[r] /\ failedCall[r] = "none"
                => response[r] = ErrorResponse("Execution timeout"))
    /\ [](\A c \in calls : c.kind = "poll" => c.at - startTime[c.req] < 10000)
    /\ [][\A r \in Reqs :
            pc[r] = "sleep" /\ Done(r)' => now - startTime[r] >= 10000]_vars
    /\ \A r \in Reqs : (pc[r] \in {"poll", "sleep"}) ~> Done(r)

\* A run has ended in the timeout after ten polls, all answered as pending.
C3_Witness ==
    /\ Done("r1")
    /\ polls["r1"] = 10
    /\ pending["r1"] = 10
    /\ response["r1"] = ErrorResponse("Execution timeout")

\* C4: a verdict is returned for the first poll answered with a status id >= 3,
\* poll k+1 after k answers with an id < 3, and after exactly k sleeps.
C4_SleepCount ==
    \A r \in Reqs :
        ReturnedVerdict(r) =>
            /\ result[r].status_id.n >= 3
            /\ polls[r] = pending[r] + 1
            /\ sleeps[r] = pending[r]
            /\ response[r].body.status_description = result[r].status_description

\* The scenario of the spec: the first poll is answered In Queue, the second
\* Accepted with "Hello, World!\n", and that verdict is returned after one sleep.
C4_Witness ==
    /\ ReturnedVerdict("r1")
    /\ polls["r1"] = 2
    /\ sleeps["r1"] = 1
    /\ response["r1"].body.stdout = Str("Hello, World!\n")
    /\ response["r1"].body.time = Str("0.02")
    /\ response["r1"].body.memory = Num(3328)

\* A request other than the OPTIONS preflight has been answered.
Answered(r) == Done(r) /\ response[r].body # Null

C6_Sequential ==
    /\ [](\A r \in Reqs : Cardinality(Outstanding(r)) <= 1)
    /\ [](\A c \in calls :
            c.kind = "poll" =>
                /\ issued[c.req] # Undefined
                /\ submits[c.req] = 1
                /\ polls[c.req] = c.n
                /\ pending[c.req] = c.n - 1
                /\ sleeps[c.req] = c.n - 1)
    /\ [][\A r \in Reqs :
            polls'[r] > polls[r] /\ polls[r] > 0
                => pc[r] = "sleep" /\ now - sleepFrom[r] >= 1000]_vars

\* The third poll of a run is outstanding.
C6_Witness == \E c \in calls : c.req = "r1" /\ c.kind = "poll" /\ c.n = 3

\* C7: every request that returns without a verdict, whatever failed, is
\* answered with a body whose stderr is a non-empty string and whose
\* status.description is "Runtime Error".
C7_FailureShape ==
    \A r \in Reqs :
        /\ Done(r) => response[r] # NoResponse
        /\ Answered(r) /\ ~ReturnedVerdict(r) => ErrorShape(response[r])
        /\ failedCall[r] # "none" => Answered(r) /\ ErrorShape(response[r])

\* A poll was rejected with an error that has no message.
C7_Witness ==
    /\ Answered("r1")
    /\ failedCall["r1"] = "poll"
    /\ response["r1"].body.stderr = Str("Execution failed: Unknown error")

\* C8: once the submit has failed the request has ended in failure without a
\* poll, and once a poll has failed it has ended in failure with that poll as
\* its last; nothing of the request stays outstanding.
C8_NoRetry ==
    \A r \in Reqs :
        /\ failedCall[r] = "submit" =>
              /\ Done(r) /\ ErrorShape(response[r])
              /\ submits[r] = 1 /\ polls[r] = 0 /\ Outstanding(r) = {}
        /\ failedCall[r] = "poll" =>
              /\ Done(r) /\ ErrorShape(response[r])
              /\ submits[r] = 1 /\ polls[r] = pending[r] + 1 /\ Outstanding(r) = {}

\* The second poll of a run was answered 503 in the first seconds of its budget.
C8_Witness ==
    /\ failedCall["r1"] = "poll"
    /\ polls["r1"] = 2
    /\ now <= 2000
    /\ response["r1"] = ErrorResponse("Result fetch failed: 503")

\* C9: a request submits at most once and polls only with the token the
\* gateway returned to its own submit, never with the token of another
\* request.
C9_OwnToken ==
    \A r \in Reqs :
        /\ submits[r] <= 1
        /\ polledWith[r] \subseteq {issued[r]}
        /\ \A c \in Outstanding(r) : c.kind = "poll" => c.token = issued[r]
        /\ \A q \in Reqs \ {r} :
              issued[q] # Undefined => issued[q] \notin polledWith[r]

\* Two requests are in their poll loops at the same time, each past its
\* second poll, the later submit having been answered first.
C9_Witness ==
    /\ polls["r1"] >= 2 /\ pc["r1"] = "sleep"
    /\ polls["r2"] >= 2 /\ pc["r2"] = "poll"
    /\ issued["r1"] = Str("T2")
    /\ issued["r2"] = Str("T1")

\* C10: a verdict is returned only for a poll result with status id >= 3, and
\* the loop is left only with such a verdict, on a failed poll, or when 10
\* seconds have elapsed.
C10_OnlyTerminal ==
    /\ [](\A r \in Reqs : ReturnedVerdict(r) => result[r].status_id.n >= 3)
    /\ [][\A r \in Reqs :
            pc[r] \in {"poll", "sleep"} /\ Done(r)' =>
                \/ ReturnedVerdict(r)' /\ result'[r].status_id.n >= 3
                \/ failedCall'[r] = "poll"
                \/ now - startTime[r] >= 10000]_vars

\* A verdict with status id 6 was returned after two answers with an id < 3.
C10_Witness ==
    /\ ReturnedVerdict("r1")
    /\ pending["r1"] = 2
    /\ result["r1"].status_id = Num(6)

\* C16: a run issues at most 10 polls, whatever the gateway answers and
\* however long its answers take.
C16_PollCountBound == \A r \in Reqs : polls[r] <= 10

\* The tenth poll of a run is outstanding.
C16_Witness ==
    \E c \in calls : c.req = "r1" /\ c.kind = "poll" /\ c.n = 10 /\ pending["r1"] = 9

-----------------------------------------------------------------------------
(* Properties of the Editor Shell.                                           *)

\* The ids of a list of files, in order.
Ids(list) == [i \in DOMAIN list |-> list[i].id]

\* rest is list without its entries of the given id: the other entries are
\* all there, unchanged and in the same order.
IsRest(rest, list, id) ==
    LET kept == {i \in DOMAIN list : list[i].id # id} IN
    /\ Len(rest) = Cardinality(kept)
    /\ \A i \in kept : rest[Cardinality({j \in kept : j <= i})] = list[i]

\* The last element of a list of tabs, or none.
LastOrNone(tabs) == IF Len(tabs) = 0 THEN Null ELSE tabs[Len(tabs)]

\* A step in which the user event `handler` is handled.
Handles(handler) == events' = events + 1 /\ last'.handler = handler

\* A step in which the handler awaiting inv goes on after its invoke
\* succeeded.
Succeeds(inv) == invocations' = invocations \ {inv} /\ last'.ok

\* C11: when a tab is closed that is the tab of the active file, the tab is
\* removed from the open tabs, the other tabs stay in their order, and the
\* active file becomes the last of them, or none when no tab remains; the
\* same holds of the call handleFileDelete makes, for the tabs and the active
\* file that handler has.
C11_TabClosePolicy ==
    [][/\ Handles("handleTabClose") /\ activeFile # Null
             /\ last'.fileId = activeFile.id =>
           /\ IsRest(openTabs', openTabs, activeFile.id)
           /\ activeFile' = LastOrNone(openTabs')
       /\ \A inv \in invocations :
             /\ inv.kind = "delete" /\ Succeeds(inv)
             /\ inv.activeFile # Null /\ inv.activeFile.id = inv.fileId
             => /\ IsRest(openTabs', inv.openTabs, inv.fileId)
                /\ activeFile' = LastOrNone(openTabs')]_vars

\* The scenario of the spec: of the three open tabs f3, f2, f1 the active one,
\* f1, was closed, and f2, opened before it, is active.
C11_Witness ==
    /\ last.handler = "handleTabClose"
    /\ last.fileId = "f1" /\ last.active = "f1"
    /\ events = 3
    /\ Ids(openTabs) = <<"f3", "f2">>
    /\ activeFile = openTabs[2]

\* C14: when the invoke of a run settles, isRunning is reset and output is set:
\* to the verdict returned, or, when the invoke failed, to an object with
\* stderr populated and the status description 'Runtime Error'; and every run
\* started is completed, provided its invoke settles.
C14_RunCompletes ==
    /\ [][\A inv \in invocations :
            inv.kind = "run" /\ invocations' = invocations \ {inv} =>
                /\ isRunning' = FALSE
                /\ output' # Null
                /\ IF last'.ok
                   THEN \E res \in FinishedResults : output' = Verdict(res).body
                   ELSE /\ output'.stderr.t = "string"
                        /\ Len(output'.stderr.s) > 0
                        /\ output'.status_description = Str("Runtime Error")]_vars
    /\ \A n \in 2..(MaxEvents + 1) :
          (\E inv \in invocations : inv.kind = "run" /\ inv.n = n)
              ~> ~(\E inv \in invocations : inv.kind = "run" /\ inv.n = n)

\* The invoke of a run failed: the output panel shows the error and the run
\* is over.
C14_Witness ==
    /\ last.handler = "handleRunCode" /\ ~last.ok
    /\ ~isRunning
    /\ output # Null
    /\ output.stderr =
          Str("Execution failed: Edge Function returned a non-2xx status code")
    /\ \A inv \in invocations : inv.kind # "run"

\* The run requests that are outstanding.
Runs == {inv \in invocations : inv.kind = "run"}

\* C15: no user action starts a second run request while one is outstanding,
\* and isRunning is true as long as a run request is outstanding.
C15_OneRunInFlight ==
    /\ Cardinality(Runs) <= 1
    /\ Runs # {} => isRunning

\* C17: after handleEditorChange(value) the active file and the entries of its
\* id in the file collection and in the open tabs have the content value; the
\* other entries, and the order and length of both lists, are unchanged.
C17_EditPropagation ==
    [][\A value \in EditorValues :
          EditorChange(value) =>
              /\ activeFile'.id = activeFile.id
              /\ activeFile'.content = value.s
              /\ Ids(files') = Ids(files)
              /\ Ids(openTabs') = Ids(openTabs)
              /\ \A i \in DOMAIN files :
                    IF files[i].id = activeFile.id
                    THEN files'[i].content = value.s
                    ELSE files'[i] = files[i]
              /\ \A i \in DOMAIN openTabs :
                    IF openTabs[i].id = activeFile.id
                    THEN openTabs'[i].content = value.s
                    ELSE openTabs'[i] = openTabs[i]]_vars

\* The second of two open files was edited: it has the new content in all
\* three places, the first tab has its own.
C17_Witness ==
    /\ last.handler = "handleEditorChange" /\ last.fileId = "f1"
    /\ Ids(openTabs) = <<"f3", "f1">>
    /\ activeFile.content = "x = 1"
    /\ openTabs[2] = activeFile
    /\ openTabs[1].content = ""
    /\ \E i \in DOMAIN files : files[i] = activeFile

\* C18: every record of one id that is in the file collection, in the open
\* tabs and the active file is the same record in each.
C18_ThreeViews ==
    /\ \A i \in DOMAIN files, j \in DOMAIN openTabs :
          files[i].id = openTabs[j].id => files[i] = openTabs[j]
    /\ activeFile # Null =>
          /\ \A i \in DOMAIN files :
                files[i].id = activeFile.id => files[i] = activeFile
          /\ \A j \in DOMAIN openTabs :
                openTabs[j].id = activeFile.id => openTabs[j] = activeFile

\* The language the extension of each new name stands for.
LanguageOfName == [n \in NewNames |-> CASE n = "Main.CPP" -> "cpp"]

\* C19: after a rename that succeeded the file of that id in the collection
\* has the new name, the path of the new name and the language of its
\* extension, and the id and the content it had.
C19_Rename ==
    [][\A inv \in invocations :
          inv.kind = "rename" /\ Succeeds(inv) =>
              /\ \E i \in DOMAIN files' : files'[i].id = inv.fileId
              /\ \A i \in DOMAIN files' :
                    files'[i].id = inv.fileId =>
                        /\ files'[i].name = inv.body.filename
                        /\ files'[i].path = "/" \o inv.body.filename
                        /\ files'[i].language = LanguageOfName[inv.body.filename]
                        /\ \A j \in DOMAIN files :
                              files[j].id = inv.fileId =>
                                  files'[i].content = files[j].content]_vars

\* C20: after a delete that succeeded with nothing done in between, the file
\* collection and the open tabs are what they were without the records of
\* that id, and the active file, if it was that file, is the last of the
\* remaining tabs or none, and else what it was.
C20_Delete ==
    [][\A inv \in invocations :
          /\ inv.kind = "delete" /\ Succeeds(inv)
          /\ inv.files = files /\ inv.openTabs = openTabs
          /\ inv.activeFile = activeFile
          => /\ IsRest(files', files, inv.fileId)
             /\ IsRest(openTabs', openTabs, inv.fileId)
             /\ \A i \in DOMAIN files' : files'[i].id # inv.fileId
             /\ \A i \in DOMAIN openTabs' : openTabs'[i].id # inv.fileId
             /\ activeFile' =
                   IF activeFile # Null /\ activeFile.id = inv.fileId
                   THEN LastOrNone(openTabs') ELSE activeFile]_vars

\* The active file f3, one of two open, was deleted: f2, the other tab, is
\* active, and f2 and f1 are the files.
C20_Witness ==
    /\ last.handler = "handleFileDelete" /\ last.ok
    /\ last.fileId = "f3" /\ last.active = "f3"
    /\ events = 3
    /\ Ids(files) = <<"f2", "f1">>
    /\ Ids(openTabs) = <<"f2">>
    /\ activeFile = openTabs[1]

-----------------------------------------------------------------------------
(* Properties of the File Tree View.                                         *)

\* Name a comes no later than name b in alphabetical order, letters of either
\* case taken alike.
RECURSIVE Alphabetical(_, _)
Alphabetical(a, b) ==
    IF Len(a) = 0 THEN TRUE
    ELSE IF Len(b) = 0 THEN FALSE
    ELSE IF Weight(Char(a, 1)) # Weight(Char(b, 1))
    THEN Weight(Char(a, 1)) < Weight(Char(b, 1))
    ELSE Alphabetical(SubSeq(a, 2, Len(a)), SubSeq(b, 2, Len(b)))

\* The children of node n of the tree, as nodes.
Children(n) == [i \in DOMAIN tree.nodes[n].children |->
                   tree.nodes[tree.nodes[n].children[i]]]

\* C12: at every node of the tree the folders come before the files, and the
\* folders and the files are each in alphabetical order of name.
C12_TreeOrdering ==
    tree # Null =>
        \A n \in DOMAIN tree.nodes :
            \A i, j \in DOMAIN Children(n) :
                i < j =>
                    /\ ~(Children(n)[i].type = "file" /\ Children(n)[j].type = "folder")
                    /\ Children(n)[i].type = Children(n)[j].type =>
                          Alphabetical(Children(n)[i].name, Children(n)[j].name)

\* The names of the children of node n, in order.
ChildNames(n) == [i \in DOMAIN Children(n) |-> Children(n)[i].name]

\* A list that has a file of a folder between two files of the root, the
\* later in the alphabet first: the tree has the folder first and the files
\* of the root in order.
C12_Witness ==
    /\ tree # Null
    /\ [i \in DOMAIN files |-> files[i].path]
          = <<"/README.md", "/src/Zed.js", "/main.py">>
    /\ ChildNames(1) = <<"src", "main.py", "README.md">>

\* C13: no file whose path ends in '/.keep' is a file node of the tree, and
\* building the tree leaves the file list as it was.
C13_MarkerHidden ==
    /\ [](tree # Null =>
            \A n \in DOMAIN tree.nodes :
                tree.nodes[n].type = "file" =>
                    /\ ~EndsWith(tree.nodes[n].path, "/.keep")
                    /\ ~EndsWith(tree.nodes[n].file.path, "/.keep"))
    /\ [][tree' # tree => files' = files]_vars

\* The tree of a list with a marker and a file of the same folder: the
\* folder has the file only, and the marker is still in the list.
C13_Witness ==
    /\ tree # Null
    /\ [i \in DOMAIN files |-> files[i].path] = <<"/src/.keep", "/src/app.js">>
    /\ ChildNames(1) = <<"src">>
    /\ ChildNames(2) = <<"app.js">>

\* The paths of the folders a path lies in, the root left out.
FoldersOf(path) ==
    {SubSeq(path, 1, k - 1) : k \in {j \in 2..Len(path) : Char(path, j) = "/"}}

\* The folder a path lies in directly.
DirOf(path) ==
    IF FoldersOf(path) = {} THEN "/"
    ELSE CHOOSE d \in FoldersOf(path) : \A e \in FoldersOf(path) : Len(e) <= Len(d)

\* The file is a marker of a folder.
IsMarker(f) == Len(f.path) >= 6 /\ SubSeq(f.path, Len(f.path) - 5, Len(f.path)) = "/.keep"

\* The folder nodes of the tree that have the path.
FolderNodesAt(path) ==
    {n \in DOMAIN tree.nodes :
        tree.nodes[n].type = "folder" /\ tree.nodes[n].path = path}

\* The places node n has among the children of the nodes of the tree.
PlacesOf(n) ==
    {pk \in (DOMAIN tree.nodes) \X (1..Len(tree.nodes)) :
        /\ pk[2] \in DOMAIN tree.nodes[pk[1]].children
        /\ tree.nodes[pk[1]].children[pk[2]] = n}

\* C21: every folder a marker file lies in, directly or not, has a folder
\* node in the tree, and the folder of a marker that has no other file has
\* no file among its children.
C21_MarkersMaterialize ==
    tree # Null =>
        \A i \in DOMAIN files :
            IsMarker(files[i]) =>
                /\ \A d \in FoldersOf(files[i].path) : FolderNodesAt(d) # {}
                /\ (\A j \in DOMAIN files :
                       j # i => DirOf(files[j].path) # DirOf(files[i].path)) =>
                      \A n \in FolderNodesAt(DirOf(files[i].path)) :
                          \A k \in DOMAIN Children(n) : Children(n)[k].type # "file"

\* The folders of the files that are no markers.
ShownFolders ==
    UNION {FoldersOf(files[i].path) : i \in {j \in DOMAIN files : ~IsMarker(files[j])}}

\* Node n is in one place of the tree, among the children of the one folder
\* node of the path.
ChildOfFolder(n, path) ==
    /\ Cardinality(PlacesOf(n)) = 1
    /\ \A pk \in PlacesOf(n) : FolderNodesAt(path) = {pk[1]}

-----------------------------------------------------------------------------
(* Properties of the Editor Shell under handlers that overlap.               *)

\* The ids of the elements of a list of files.
IdSet(list) == {list[i].id : i \in DOMAIN list}

\* C24: the active file is none or has the id of an open tab.
C24_ActiveIsOpenTab ==
    activeFile # Null => activeFile.id \in IdSet(openTabs)

\* C25: the id of every open tab and of the active file is the id of a file
\* of the file collection.
C25_TabsAreFiles ==
    /\ IdSet(openTabs) \subseteq IdSet(files)
    /\ activeFile # Null => activeFile.id \in IdSet(files)

\* The handlers that await a call of the files function for the explorer.
Persisting == {"create", "rename", "delete"}

\* C22: when a create, a rename or a delete goes on after its call succeeded,
\* every file the collection has, but the one deleted, is in the collection
\* afterwards with the content it has, and no file comes into the collection
\* but the one created.
C22_NoLostUpdate ==
    [][\A inv \in invocations :
          inv.kind \in Persisting /\ Succeeds(inv) =>
              /\ \A i \in DOMAIN files :
                    \/ inv.kind = "delete" /\ files[i].id = inv.fileId
                    \/ \E j \in DOMAIN files' :
                          /\ files'[j].id = files[i].id
                          /\ files'[j].content = files[i].content
              /\ Cardinality(IdSet(files') \ IdSet(files))
                    <= IF inv.kind = "create" THEN 1 ELSE 0]_vars

\* C30: a create, a rename or a delete leaves the file collection, the open
\* tabs and the active file as they are when it is called and when its call
\* of the files function has failed, and the handler has ended then.
C30_FailureChangesNothing ==
    [][/\ \A inv \in invocations :
             /\ inv.kind \in Persisting
             /\ invocations' = invocations \ {inv}
             /\ ~last'.ok
             => /\ files' = files /\ openTabs' = openTabs /\ activeFile' = activeFile
                /\ inv.files = files => files' = inv.files
       /\ \A inv \in invocations' \ invocations :
             inv.kind \in Persisting =>
                /\ files' = files /\ openTabs' = openTabs /\ activeFile' = activeFile
                /\ inv.files = files]_vars

\* The delete of the active file has failed: the three files, the tab and
\* the active file are there, and the row is.
C30_Witness ==
    /\ last.handler = "handleFileDelete" /\ ~last.ok
    /\ last.fileId = "f3" /\ last.active = "f3"
    /\ invocations = {}
    /\ Ids(files) = <<"f3", "f2", "f1">>
    /\ Ids(openTabs) = <<"f3">>
    /\ activeFile = openTabs[1]
    /\ Len(table) = 3

\* C23: when a save has succeeded and the file is in the collection as it was
\* saved, the table has a row of the id of the file with its name, content
\* and language, and has as many rows as before if it had a row of that id.
C23_SaveSnapshot ==
    [][\A inv \in invocations :
          /\ inv.kind = "save" /\ Succeeds(inv)
          /\ \E i \in DOMAIN files :
                /\ files[i].id = inv.fileId
                /\ files[i].name = inv.body.filename
                /\ files[i].content = inv.body.content
                /\ files[i].language = inv.body.language
          => /\ \E k \in DOMAIN table' :
                   /\ table'[k].id = inv.fileId
                   /\ table'[k].filename = inv.body.filename
                   /\ table'[k].content = inv.body.content
                   /\ table'[k].language = inv.body.language
             /\ (\E k \in DOMAIN table : table[k].id = inv.fileId) =>
                   Len(table') = Len(table)]_vars

\* C26: a run request that is started has the content and the language of
\* the active file as its code and language, and a save that is started has
\* the name and the content of the active file.
C26_ActsOnCurrentFile ==
    [][\A inv \in invocations' \ invocations :
          /\ inv.kind = "run" =>
                /\ activeFile # Null
                /\ inv.body.code = activeFile.content
                /\ inv.body.language = activeFile.language
          /\ inv.kind = "save" =>
                /\ activeFile # Null
                /\ inv.body.filename = activeFile.name
                /\ inv.body.content = activeFile.content]_vars

-----------------------------------------------------------------------------
(* Properties of the files function.                                         *)

\* The path is /files/:id.
IsPathOfId(pathname) ==
    Len(pathname) > 7 /\ SubSeq(pathname, 1, 7) = "/files/"

\* C27: a request selects at most one of list, create, update and delete, and
\* a row leaves the table only on a DELETE to /files/:id or a POST to
\* /files/:id whose body is empty or the text {}.
C27_DeleteDispatch ==
    [][/\ served' # Null => Cardinality(served'.selected) <= 1
       /\ (\E k \in DOMAIN table :
              \A j \in DOMAIN table' : table'[j].id # table[k].id) =>
            /\ IsPathOfId(served'.pathname)
            /\ \/ served'.method = "DELETE"
               \/ /\ served'.method = "POST"
                  /\ served'.bodyText \in {"", "{}"}]_vars

-----------------------------------------------------------------------------
(* Properties of the AICopilot.                                              *)

\* The path with one slash at its head, as the paths of the project are.
RECURSIVE Rooted(_)
Rooted(path) ==
    IF Len(path) > 0 /\ SubSeq(path, 1, 1) = "/"
    THEN Rooted(SubSeq(path, 2, Len(path)))
    ELSE "/" \o path

\* Some file of the structure is a file of the project.
TargetsExisting(structure, project) ==
    \E i \in DOMAIN structure.files, j \in DOMAIN project :
        Rooted(structure.files[i].path) = Rooted(project[j].path)

\* C28: hasConflicts of the structure returned is true exactly when one of
\* its files names the path of an existing file, and a structure that has a
\* file of the project is given to onFilesGenerated only after the preview
\* was confirmed.
C28_NoSilentOverwrite ==
    copilot # Null =>
        /\ copilot.structure # Null =>
              (copilot.structure.hasConflicts <=>
                  \E i \in DOMAIN copilot.structure.files,
                     j \in DOMAIN copilot.existingFiles :
                       copilot.structure.files[i].path
                           = copilot.existingFiles[j].path)
        /\ copilot.generated # Null
              /\ TargetsExisting(copilot.generated, copilot.project)
              => copilot.confirmed

====
